---- MODULE Spec2Model ----
(***************************************************************************)
(* SparseMatrix (dsparse_matrix.py): a dictionary-of-keys sparse matrix    *)
(* with text load/save, element access and the algebraic operations.       *)
(*                                                                         *)
(* A matrix object is a record [rows, cols, matrix]; `matrix` is the dict  *)
(* of the class, a function from the set of stored keys <<row, col>> to    *)
(* the stored integer.  Text is a sequence of one-character strings.       *)
(***************************************************************************)
EXTENDS Integers, Sequences, FiniteSets, TLC

VARIABLES
    mats,   \* the live SparseMatrix objects, by slot (matrix1, matrix2)
    file,   \* the content of the matrix file, or NoFile when it does not exist
    ret     \* outcome of the most recent call: operation, arguments, result, error

vars == <<mats, file, ret>>

-----------------------------------------------------------------------------
(* Bounds of the model *)

MaxDim == 2      \* rows, cols range over 0..MaxDim; indices over 0..MaxDim-1
MaxVal == 1      \* values given to set_element and scalars range over -MaxVal..MaxVal
MaxCells == 2    \* at most this many stored cells in an operand
MaxData == 2     \* at most this many data lines in a file written by the environment

Slots == {1, 2}
Dims == 0 .. MaxDim
Idx == 0 .. (MaxDim - 1)
Keys == Idx \X Idx
Vals == (0 - MaxVal) .. MaxVal

-----------------------------------------------------------------------------
(* Python dict *)

EmptyDict == <<>>

DictSet(d, k, v) == [x \in (DOMAIN d) \cup {k} |-> IF x = k THEN v ELSE d[x]]

DictDel(d, k) == [x \in (DOMAIN d) \ {k} |-> d[x]]

\* every order in which the elements of a finite set can be iterated
Orders(S) ==
    LET n == Cardinality(S)
    IN  {o \in [1 .. n -> S] : \A i, j \in 1 .. n : o[i] = o[j] => i = j}

-----------------------------------------------------------------------------
(* The class *)

\* __init__ without file_path
NewMatrix(rows, cols) == [rows |-> rows, cols |-> cols, matrix |-> EmptyDict]

get_element(m, row, col) ==
    IF <<row, col>> \in DOMAIN m.matrix THEN m.matrix[<<row, col>>] ELSE 0

\* variant: the zero is stored
set_element_keep_zero(m, row, col, value) ==
    [m EXCEPT !.matrix = DictSet(m.matrix, <<row, col>>, value)]

\* variant: a zero is ignored, the cell is not deleted
set_element_ignore_zero(m, row, col, value) ==
    IF value # 0
    THEN [m EXCEPT !.matrix = DictSet(m.matrix, <<row, col>>, value)]
    ELSE m

set_element(m, row, col, value) ==
    IF value # 0
    THEN [m EXCEPT !.matrix = DictSet(m.matrix, <<row, col>>, value)]
    ELSE IF <<row, col>> \in DOMAIN m.matrix
         THEN [m EXCEPT !.matrix = DictDel(m.matrix, <<row, col>>)]
         ELSE m

-----------------------------------------------------------------------------
(* add / subtract / multiply / multiply_scalar.  Each returns the pair     *)
(* [err, result]: result is <<m>> for a returned matrix and <<>> when the  *)
(* call raised.  `order` is the order in which the loop visits the keys.   *)

Raised(e) == [err |-> e, result |-> <<>>]
Returned(m) == [err |-> "none", result |-> <<m>>]

\* variant: only the rows are compared
dims_differ_rows_only(self, other) == self.rows # other.rows

\* line 86 / line 108
dims_differ(self, other) == self.rows # other.rows \/ self.cols # other.cols

\* line 130
inner_differ(self, other) == self.cols # other.rows

\* line 91 / line 113
union_keys(self, other) == (DOMAIN self.matrix) \cup (DOMAIN other.matrix)

\* variant: self is read twice
add_value_self_twice(self, other, key) ==
    get_element(self, key[1], key[2]) + get_element(self, key[1], key[2])

\* line 93
add_value(self, other, key) ==
    get_element(self, key[1], key[2]) + get_element(other, key[1], key[2])

\* line 115
subtract_value(self, other, key) ==
    get_element(self, key[1], key[2]) - get_element(other, key[1], key[2])

RECURSIVE add_loop(_, _, _, _, _)
add_loop(result, self, other, order, n) ==
    IF n > Len(order) THEN result
    ELSE add_loop(set_element(result, order[n][1], order[n][2],
                              add_value(self, other, order[n])),
                  self, other, order, n + 1)

add(self, other, order) ==
    IF dims_differ(self, other) THEN Raised("ValueError")
    ELSE Returned(add_loop(NewMatrix(self.rows, self.cols), self, other, order, 1))

RECURSIVE subtract_loop(_, _, _, _, _)
subtract_loop(result, self, other, order, n) ==
    IF n > Len(order) THEN result
    ELSE subtract_loop(set_element(result, order[n][1], order[n][2],
                                   subtract_value(self, other, order[n])),
                       self, other, order, n + 1)

subtract(self, other, order) ==
    IF dims_differ(self, other) THEN Raised("ValueError")
    ELSE Returned(subtract_loop(NewMatrix(self.rows, self.cols), self, other, order, 1))

\* variant: the product overwrites the element instead of adding to it
RECURSIVE multiply_row_overwrite(_, _, _, _, _, _)
multiply_row_overwrite(result, i, k, v, other, j) ==
    IF j >= other.cols THEN result
    ELSE multiply_row_overwrite(
             IF <<k, j>> \in DOMAIN other.matrix
             THEN set_element(result, i, j, v * other.matrix[<<k, j>>])
             ELSE result,
             i, k, v, other, j + 1)

\* lines 136-138: for j in range(other.cols), from column j on
RECURSIVE multiply_row(_, _, _, _, _, _)
multiply_row(result, i, k, v, other, j) ==
    IF j >= other.cols THEN result
    ELSE multiply_row(
             IF <<k, j>> \in DOMAIN other.matrix
             THEN set_element(result, i, j,
                              get_element(result, i, j) + v * other.matrix[<<k, j>>])
             ELSE result,
             i, k, v, other, j + 1)

\* line 135: for (i, k), v in self.matrix.items(), from the n-th item on
RECURSIVE multiply_loop(_, _, _, _, _)
multiply_loop(result, self, other, order, n) ==
    IF n > Len(order) THEN result
    ELSE multiply_loop(
             multiply_row(result, order[n][1], order[n][2], self.matrix[order[n]], other, 0),
             self, other, order, n + 1)

multiply(self, other, order) ==
    IF inner_differ(self, other) THEN Raised("ValueError")
    ELSE Returned(multiply_loop(NewMatrix(self.rows, other.cols), self, other, order, 1))

\* variant: the product is assigned to the dict directly
RECURSIVE scalar_loop_assign(_, _, _, _, _)
scalar_loop_assign(result, self, scalar, order, n) ==
    IF n > Len(order) THEN result
    ELSE scalar_loop_assign(
             [result EXCEPT !.matrix = DictSet(result.matrix, order[n],
                                               self.matrix[order[n]] * scalar)],
             self, scalar, order, n + 1)

\* lines 152-153
RECURSIVE scalar_loop(_, _, _, _, _)
scalar_loop(result, self, scalar, order, n) ==
    IF n > Len(order) THEN result
    ELSE scalar_loop(set_element(result, order[n][1], order[n][2],
                                 self.matrix[order[n]] * scalar),
                     self, scalar, order, n + 1)

multiply_scalar(self, scalar, order) ==
    Returned(scalar_loop(NewMatrix(self.rows, self.cols), self, scalar, order, 1))

-----------------------------------------------------------------------------
(* Text: str(int), int(str), str.strip, str.split, line iteration *)

Digits == <<"0", "1", "2", "3", "4", "5", "6", "7", "8", "9">>

IsDigit(ch) == \E d \in 1 .. 10 : Digits[d] = ch

DigitVal(ch) == (CHOOSE d \in 1 .. 10 : Digits[d] = ch) - 1

\* str(n) for n >= 0
RECURSIVE NatToStr(_)
NatToStr(n) ==
    IF n < 10 THEN <<Digits[n + 1]>>
    ELSE NatToStr(n \div 10) \o <<Digits[(n % 10) + 1]>>

\* str(n), the f-string conversion of lines 164-167
IntToStr(n) == IF n < 0 THEN <<"-">> \o NatToStr(0 - n) ELSE NatToStr(n)

\* s.strip(chars): drop every leading and every trailing character that is in chars
RECURSIVE lstrip_chars(_, _)
lstrip_chars(s, chars) ==
    IF s # <<>> /\ Head(s) \in chars THEN lstrip_chars(Tail(s), chars) ELSE s

RECURSIVE rstrip_chars(_, _)
rstrip_chars(s, chars) ==
    IF s # <<>> /\ s[Len(s)] \in chars
    THEN rstrip_chars(SubSeq(s, 1, Len(s) - 1), chars)
    ELSE s

strip_chars(s, chars) == rstrip_chars(lstrip_chars(s, chars), chars)

\* s.strip()
strip(s) == strip_chars(s, {" ", "\n", "\t"})

\* s.split(sep) for a one-character sep: one more part than there are separators
RECURSIVE split_from(_, _, _, _)
split_from(s, sep, n, part) ==
    IF n > Len(s) THEN <<part>>
    ELSE IF s[n] = sep THEN <<part>> \o split_from(s, sep, n + 1, <<>>)
    ELSE split_from(s, sep, n + 1, Append(part, s[n]))

split(s, sep) == split_from(s, sep, 1, <<>>)

\* value of a string of digits and underscores, most significant digit first
RECURSIVE digits_value(_, _, _)
digits_value(s, n, acc) ==
    IF n > Len(s) THEN acc
    ELSE IF s[n] = "_" THEN digits_value(s, n + 1, acc)
    ELSE digits_value(s, n + 1, 10 * acc + DigitVal(s[n]))

\* int(s): surrounding whitespace, an optional sign, then digits, single underscores
\* allowed between digits.  [ok |-> FALSE] stands for the ValueError int() raises.
py_int(s) ==
    LET t == strip(s)
        signed == t # <<>> /\ Head(t) \in {"+", "-"}
        body == IF signed THEN Tail(t) ELSE t
        wellformed ==
            /\ body # <<>>
            /\ \A i \in 1 .. Len(body) : IsDigit(body[i]) \/ body[i] = "_"
            /\ IsDigit(body[1])
            /\ IsDigit(body[Len(body)])
            /\ \A i \in 1 .. (Len(body) - 1) : ~(body[i] = "_" /\ body[i + 1] = "_")
    IN  IF ~wellformed THEN [ok |-> FALSE, val |-> 0]
        ELSE [ok |-> TRUE,
              val |-> IF signed /\ Head(t) = "-"
                      THEN 0 - digits_value(body, 1, 0)
                      ELSE digits_value(body, 1, 0)]

\* line 31: [line.strip() for line in file if line.strip()]
RECURSIVE nonblank(_)
nonblank(ls) ==
    IF ls = <<>> THEN <<>>
    ELSE IF strip(Head(ls)) = <<>> THEN nonblank(Tail(ls))
    ELSE <<strip(Head(ls))>> \o nonblank(Tail(ls))

stripped_lines(text) == nonblank(split(text, "\n"))

-----------------------------------------------------------------------------
(* load_from_file / save_to_file.  A file is [exists, text]; load returns   *)
(* [err, m]: the error raised ("none" when it returns) and the fields of    *)
(* the object when the call ends.                                           *)

NoFile == [exists |-> FALSE, text |-> <<>>]
FileOf(text) == [exists |-> TRUE, text |-> text]

Loaded(e, m) == [err |-> e, m |-> m]

\* line 41
wrapped(line) == Head(line) = "(" /\ line[Len(line)] = ")"

\* line 45, right-hand side: the integers of the triple, <<>> when int() or the
\* unpacking into row, col, value raises ValueError
parse_triple(line) ==
    LET parts == split(strip_chars(line, {"(", ")"}), ",")
    IN  IF Len(parts) = 3 /\ \A i \in 1 .. 3 : py_int(parts[i]).ok
        THEN <<py_int(parts[1]).val, py_int(parts[2]).val, py_int(parts[3]).val>>
        ELSE <<>>

\* line 46
store_cell(m, row, col, value) ==
    [m EXCEPT !.matrix = DictSet(m.matrix, <<row, col>>, value)]

\* lines 40-48, from the n-th stripped line on
RECURSIVE load_cells(_, _, _)
load_cells(m, lines, n) ==
    IF n > Len(lines) THEN Loaded("none", m)
    ELSE IF ~wrapped(lines[n]) THEN Loaded("ValueError", m)
    ELSE LET t == parse_triple(lines[n])
         IN  IF t = <<>> THEN Loaded("ValueError", m)
             ELSE load_cells(store_cell(m, t[1], t[2], t[3]), lines, n + 1)

\* lines 36, 37: int(line.split('=')[1].strip()); err is the exception raised
header_value(lines, n) ==
    IF n > Len(lines) THEN [err |-> "IndexError", val |-> 0]
    ELSE LET parts == split(lines[n], "=")
         IN  IF Len(parts) < 2 THEN [err |-> "IndexError", val |-> 0]
             ELSE IF ~py_int(strip(parts[2])).ok THEN [err |-> "ValueError", val |-> 0]
             ELSE [err |-> "none", val |-> py_int(strip(parts[2])).val]

load_from_file(self, f) ==
    IF ~f.exists THEN Loaded("FileNotFoundError", self)
    ELSE LET lines == stripped_lines(f.text)
             r == header_value(lines, 1)
             c == header_value(lines, 2)
             m1 == [self EXCEPT !.rows = r.val]
             m2 == [m1 EXCEPT !.cols = c.val]
         IN  IF lines = <<>> THEN Loaded("ValueError", self)
             ELSE IF r.err # "none" THEN Loaded(r.err, self)
             ELSE IF c.err # "none" THEN Loaded(c.err, m1)
             ELSE load_cells(m2, lines, 3)

\* tuple order of the keys, as sorted() compares them
key_le(a, b) == a[1] < b[1] \/ (a[1] = b[1] /\ a[2] <= b[2])

\* line 166: the keys of sorted(self.matrix.items())
RECURSIVE sorted_keys(_)
sorted_keys(S) ==
    IF S = {} THEN <<>>
    ELSE LET k == CHOOSE k \in S : \A x \in S : key_le(k, x)
         IN  <<k>> \o sorted_keys(S \ {k})

\* variant: the column is written before the row
cell_line_col_first(key, value) ==
    <<"(">> \o IntToStr(key[2]) \o <<",", " ">> \o IntToStr(key[1])
            \o <<",", " ">> \o IntToStr(value) \o <<")", "\n">>

\* line 167
cell_line(key, value) ==
    <<"(">> \o IntToStr(key[1]) \o <<",", " ">> \o IntToStr(key[2])
            \o <<",", " ">> \o IntToStr(value) \o <<")", "\n">>

RECURSIVE cell_lines(_, _, _)
cell_lines(m, keys, n) ==
    IF n > Len(keys) THEN <<>>
    ELSE cell_line(keys[n], m.matrix[keys[n]]) \o cell_lines(m, keys, n + 1)

\* lines 163-167: the text written
save_to_file(self) ==
    <<"r", "o", "w", "s", "=">> \o IntToStr(self.rows) \o <<"\n">>
    \o <<"c", "o", "l", "s", "=">> \o IntToStr(self.cols) \o <<"\n">>
    \o cell_lines(self, sorted_keys(DOMAIN self.matrix), 1)

-----------------------------------------------------------------------------
(* Files the environment supplies: header lines, then up to MaxData data    *)
(* lines; a malformed line, when there is one, comes last, since the load   *)
(* reads nothing after it.                                                  *)

GoodHeader ==
    <<"r", "o", "w", "s", "=">> \o IntToStr(MaxDim - 1) \o <<"\n">>
    \o <<"c", "o", "l", "s", "=">> \o IntToStr(MaxDim) \o <<"\n">>

BadHeaders ==
    { <<>>,
      <<" ", "\n", "\n">>,
      <<"r", "o", "w", "s", "\n", "c", "o", "l", "s", "=", "1", "\n">>,
      <<"r", "o", "w", "s", "=", "x", "\n", "c", "o", "l", "s", "=", "1", "\n">>,
      <<"r", "o", "w", "s", "=", "1", "\n">>,
      <<"r", "o", "w", "s", "=", "1", "\n", "c", "o", "l", "s", "\n">>,
      <<"r", "o", "w", "s", "=", "1", "\n", "c", "o", "l", "s", "=", "1", ".", "5", "\n">> }

GoodDataLines ==
    {cell_line(<<0, 0>>, v) : v \in Vals}
    \cup { cell_line(<<MaxDim - 1, MaxDim - 1>>, MaxVal),
           <<"(", "+", "0", ",", "0", ",", " ", "-", "1", "_", "0", " ", ")", " ", "\n">>,
           <<" ", "\n">> }

BadDataLines ==
    { <<"0", ",", " ", "0", ",", " ", "1", "\n">>,
      <<"(", "0", ",", " ", "0", ",", " ", "1", "\n">>,
      <<"(", "0", ",", " ", "0", ")", "\n">>,
      <<"(", "0", ",", " ", "0", ",", " ", "1", ",", " ", "1", ")", "\n">>,
      <<"(", "0", ",", " ", "0", ",", " ", "1", ".", "5", ")", "\n">>,
      <<"(", "0", ",", " ", "0", ",", " ", "-", " ", "1", ")", "\n">>,
      <<"(", "(", "0", ",", " ", "0", ",", " ", "1", ")", ")", "\n">> }

RECURSIVE Concat(_)
Concat(ls) == IF ls = <<>> THEN <<>> ELSE Head(ls) \o Concat(Tail(ls))

GoodDataTexts(n) == {Concat(ls) : ls \in UNION {[1 .. k -> GoodDataLines] : k \in 0 .. n}}

DataTexts ==
    GoodDataTexts(MaxData)
    \cup {g \o b : g \in GoodDataTexts(MaxData - 1), b \in BadDataLines}

EnvTexts == BadHeaders \cup {GoodHeader \o d : d \in DataTexts}

-----------------------------------------------------------------------------
(* The state machine.  A call sets `ret` to its outcome; Return hands the   *)
(* outcome to the caller, after which the next call can be made.            *)

Call(op, self, other, args, err, result, value) ==
    [op |-> op, self |-> self, other |-> other, args |-> args,
     err |-> err, result |-> result, value |-> value]

Idle == Call("idle", 0, 0, <<>>, "none", <<>>, <<>>)

NCells(m) == Cardinality(DOMAIN m.matrix)

\* the objects that SparseMatrix(rows=r, cols=c) and set_element build within the
\* bounds; Construct and SetElement reach every one of them from SparseMatrix()
Built ==
    {[rows |-> r, cols |-> c, matrix |-> d] :
        r \in Dims, c \in Dims,
        d \in UNION {[K -> Vals \ {0}] : K \in {K \in SUBSET Keys : Cardinality(K) <= MaxCells}}}

\* two objects as built, no file
Init ==
    /\ mats \in [Slots -> Built]
    /\ file = NoFile
    /\ ret = Idle

\* matrix1 as built, matrix2 fresh, and the file the environment has put in place, if any
InitIO ==
    /\ mats \in {[s \in Slots |-> IF s = 1 THEN m ELSE NewMatrix(0, 0)] : m \in Built}
    /\ file \in {NoFile} \cup {FileOf(t) : t \in EnvTexts}
    /\ ret = Idle

\* matrixN = SparseMatrix(rows=rows, cols=cols)
Construct(s, rows, cols) ==
    /\ ret = Idle
    /\ mats' = [mats EXCEPT ![s] = NewMatrix(rows, cols)]
    /\ ret' = Call("construct", s, 0, <<rows, cols>>, "none", <<>>, <<>>)
    /\ UNCHANGED file

SetElement(s, row, col, value) ==
    /\ ret = Idle
    /\ NCells(set_element(mats[s], row, col, value)) <= MaxCells
    /\ mats' = [mats EXCEPT ![s] = set_element(mats[s], row, col, value)]
    /\ ret' = Call("set_element", s, 0, <<row, col, value>>, "none", <<>>, <<>>)
    /\ UNCHANGED file

GetElement(s, row, col) ==
    /\ ret = Idle
    /\ ret' = Call("get_element", s, 0, <<row, col>>, "none", <<>>,
                   <<get_element(mats[s], row, col)>>)
    /\ UNCHANGED <<mats, file>>

Add(s, o) ==
    /\ ret = Idle
    /\ \E order \in Orders(union_keys(mats[s], mats[o])) :
           LET r == add(mats[s], mats[o], order)
           IN  ret' = Call("add", s, o, <<>>, r.err, r.result, <<>>)
    /\ UNCHANGED <<mats, file>>

Subtract(s, o) ==
    /\ ret = Idle
    /\ \E order \in Orders(union_keys(mats[s], mats[o])) :
           LET r == subtract(mats[s], mats[o], order)
           IN  ret' = Call("subtract", s, o, <<>>, r.err, r.result, <<>>)
    /\ UNCHANGED <<mats, file>>

Multiply(s, o) ==
    /\ ret = Idle
    /\ \E order \in Orders(DOMAIN mats[s].matrix) :
           LET r == multiply(mats[s], mats[o], order)
           IN  ret' = Call("multiply", s, o, <<>>, r.err, r.result, <<>>)
    /\ UNCHANGED <<mats, file>>

MultiplyScalar(s, scalar) ==
    /\ ret = Idle
    /\ \E order \in Orders(DOMAIN mats[s].matrix) :
           LET r == multiply_scalar(mats[s], scalar, order)
           IN  ret' = Call("multiply_scalar", s, 0, <<scalar>>, r.err, r.result, <<>>)
    /\ UNCHANGED <<mats, file>>

SaveToFile(s) ==
    /\ ret = Idle
    /\ file' = FileOf(save_to_file(mats[s]))
    /\ ret' = Call("save_to_file", s, 0, <<>>, "none", <<>>, <<>>)
    /\ UNCHANGED mats

\* matrixN.load_from_file(path) on an object that already exists
LoadFromFile(s) ==
    LET l == load_from_file(mats[s], file)
    IN  /\ ret = Idle
        /\ NCells(l.m) <= MaxCells
        /\ mats' = [mats EXCEPT ![s] = l.m]
        /\ ret' = Call("load_from_file", s, 0, <<>>, l.err, <<>>, <<>>)
        /\ UNCHANGED file

\* matrixN = SparseMatrix(path): lines 13-18; nothing is bound when it raises
ConstructFromFile(s) ==
    LET l == load_from_file(NewMatrix(0, 0), file)
    IN  /\ ret = Idle
        /\ NCells(l.m) <= MaxCells
        /\ mats' = IF l.err = "none" THEN [mats EXCEPT ![s] = l.m] ELSE mats
        /\ ret' = Call("construct_from_file", s, 0, <<>>, l.err, <<>>, <<>>)
        /\ UNCHANGED file

\* the caller takes the outcome of the call
Return ==
    /\ ret # Idle
    /\ ret' = Idle
    /\ UNCHANGED <<mats, file>>

\* the object calls
Next ==
    \/ \E s \in Slots, rows \in Dims, cols \in Dims : Construct(s, rows, cols)
    \/ \E s \in Slots, row \in Idx, col \in Idx, value \in Vals : SetElement(s, row, col, value)
    \/ \E s \in Slots, row \in Idx, col \in Idx : GetElement(s, row, col)
    \/ \E s \in Slots, o \in Slots : Add(s, o)
    \/ \E s \in Slots, o \in Slots : Subtract(s, o)
    \/ \E s \in Slots, o \in Slots : Multiply(s, o)
    \/ \E s \in Slots, scalar \in Vals : MultiplyScalar(s, scalar)
    \/ Return

Spec == Init /\ [][Next]_vars

\* the file calls: matrix1 is saved and loaded, matrix2 = SparseMatrix(path) reads back
NextIO ==
    \/ SaveToFile(1)
    \/ LoadFromFile(1)
    \/ ConstructFromFile(2)
    \/ \E s \in Slots, o \in Slots : Add(s, o)
    \/ \E s \in Slots, o \in Slots : Subtract(s, o)
    \/ \E s \in Slots, o \in Slots : Multiply(s, o)
    \/ \E s \in Slots, scalar \in Vals : MultiplyScalar(s, scalar)
    \/ Return

SpecIO == InitIO /\ [][NextIO]_vars

-----------------------------------------------------------------------------
(* Vocabulary of the properties *)

Self == mats[ret.self]
Other == mats[ret.other]
Result == ret.result[1]
Ok(op) == ret.op = op /\ ret.err = "none"

\* the coordinates the properties look at: every index pair of the model, inside
\* and outside the declared dimensions, and whatever else is stored
Probe(a, b, c) == Keys \cup (DOMAIN a.matrix) \cup (DOMAIN b.matrix) \cup (DOMAIN c.matrix)

Stored(m, k) == k \in DOMAIN m.matrix

At(m, k) == IF k \in DOMAIN m.matrix THEN m.matrix[k] ELSE 0

InRange(m) ==
    \A k \in DOMAIN m.matrix : k[1] \in 0 .. (m.rows - 1) /\ k[2] \in 0 .. (m.cols - 1)

\* sum over k in [from, a.cols) of a[i][k] * b[k][j]
RECURSIVE DotSum(_, _, _, _, _)
DotSum(a, b, i, j, from) ==
    IF from >= a.cols THEN 0
    ELSE At(a, <<i, from>>) * At(b, <<from, j>>) + DotSum(a, b, i, j, from + 1)

ObsEqual(a, b) ==
    /\ a.rows = b.rows
    /\ a.cols = b.cols
    /\ \A k \in Probe(a, b, a) : At(a, k) = At(b, k)

-----------------------------------------------------------------------------
(* C1: sparsity invariant -- in every reachable state no matrix, operand or *)
(* result, has a stored cell whose value is 0.                              *)
C1_NoStoredZero ==
    /\ \A s \in Slots : \A k \in DOMAIN mats[s].matrix : mats[s].matrix[k] # 0
    /\ ret.result # <<>> => \A k \in DOMAIN Result.matrix : Result.matrix[k] # 0

-----------------------------------------------------------------------------
(* C2: round trip -- the matrix read back from the text save_to_file wrote  *)
(* for M has M's rows and cols and M's get_element at every coordinate.     *)
C2_RoundTrip ==
    (ret.op = "construct_from_file" /\ file = FileOf(save_to_file(mats[1])))
        => /\ ret.err = "none"
           /\ ObsEqual(mats[2], mats[1])

C2_Witness ==
    /\ Ok("construct_from_file")
    /\ file = FileOf(save_to_file(mats[1]))
    /\ NCells(mats[1]) >= 2
    /\ \E k \in DOMAIN mats[1].matrix : mats[1].matrix[k] < 0 - 9
    /\ \E k \in DOMAIN mats[1].matrix : mats[1].matrix[k] > 0
    /\ mats[2].matrix = mats[1].matrix

-----------------------------------------------------------------------------
\* the operand shapes the call rejects
C3_Mismatch(op, a, b) ==
    IF op = "multiply" THEN a.cols # b.rows ELSE a.rows # b.rows \/ a.cols # b.cols

(* C3: add and subtract raise the dimension error exactly when rows or cols *)
(* differ, multiply exactly when self.cols # other.rows; a failing call     *)
(* returns no matrix and leaves both operands as they were; a call that     *)
(* does not fail returns a matrix.                                          *)
C3_DimensionMismatch ==
    [][ret'.op \in {"add", "subtract", "multiply"} =>
          LET a == mats[ret'.self]
              b == mats[ret'.other]
          IN  /\ C3_Mismatch(ret'.op, a, b) =>
                    ret'.err = "ValueError" /\ ret'.result = <<>> /\ mats' = mats
              /\ ~C3_Mismatch(ret'.op, a, b) =>
                    ret'.err = "none" /\ Len(ret'.result) = 1]_vars

C3_Witness ==
    /\ ret.op = "multiply"
    /\ ret.err = "ValueError"
    /\ ret.result = <<>>
    /\ Self.rows = Other.rows /\ Self.cols = Other.cols
    /\ NCells(Self) > 0 /\ NCells(Other) > 0

-----------------------------------------------------------------------------
-----------------------------------------------------------------------------
(* C5: add (subtract) returns a matrix of the operands' dimensions whose    *)
(* element at every coordinate is the sum (difference) of the operands'     *)
(* elements, stored exactly when non-zero.                                  *)
C5_AddSubElementwise ==
    (Ok("add") \/ Ok("subtract"))
        => /\ Result.rows = Self.rows
           /\ Result.cols = Self.cols
           /\ \A k \in Probe(Self, Other, Result) :
                  LET v == IF ret.op = "add"
                           THEN At(Self, k) + At(Other, k)
                           ELSE At(Self, k) - At(Other, k)
                  IN  /\ get_element(Result, k[1], k[2]) = v
                      /\ Stored(Result, k) <=> v # 0

\* one coordinate cancels and leaves no cell, another one adds up
C5_Witness ==
    /\ Ok("add")
    /\ \E k \in Keys :
           Stored(Self, k) /\ Stored(Other, k) /\ ~Stored(Result, k)
    /\ \E k \in Keys :
           Stored(Self, k) /\ Stored(Other, k) /\ Stored(Result, k)

-----------------------------------------------------------------------------
\* the line is name "=" integer
C6_HeaderLine(line, name) ==
    LET parts == split(line, "=")
    IN  Len(parts) = 2 /\ parts[1] = name /\ py_int(parts[2]).ok

\* the line is "(" content ")" and the content is three comma-separated integers
C6_TripleLine(line) ==
    /\ Len(line) >= 2
    /\ Head(line) = "("
    /\ line[Len(line)] = ")"
    /\ LET parts == split(SubSeq(line, 2, Len(line) - 1), ",")
       IN  Len(parts) = 3 /\ \A i \in 1 .. 3 : py_int(parts[i]).ok

(* C6: a load fails with ValueError when the file has no non-blank line,    *)
(* and, after two well-formed header lines, exactly when some data line is  *)
(* not "(" three comma-separated integers ")"; otherwise it succeeds.       *)
C6_LoadRejectsMalformed ==
    (ret.op \in {"load_from_file", "construct_from_file"} /\ file.exists)
        => LET lines == stripped_lines(file.text)
           IN  /\ lines = <<>> => ret.err = "ValueError"
               /\ (/\ Len(lines) >= 2
                   /\ C6_HeaderLine(lines[1], <<"r", "o", "w", "s">>)
                   /\ C6_HeaderLine(lines[2], <<"c", "o", "l", "s">>))
                      => IF \E n \in 3 .. Len(lines) : ~C6_TripleLine(lines[n])
                         THEN ret.err = "ValueError"
                         ELSE ret.err = "none"

-----------------------------------------------------------------------------
(* C7: multiply_scalar returns a matrix of self's dimensions whose element  *)
(* at every coordinate is scalar times self's; with scalar 0 it stores no   *)
(* cell at all.                                                             *)
C7_MultiplyScalar ==
    ret.op = "multiply_scalar"
        => /\ ret.err = "none"
           /\ Result.rows = Self.rows
           /\ Result.cols = Self.cols
           /\ \A k \in Probe(Self, Self, Result) :
                  get_element(Result, k[1], k[2]) = ret.args[1] * At(Self, k)
           /\ ret.args[1] = 0 => DOMAIN Result.matrix = {}

C7_Witness ==
    /\ Ok("multiply_scalar")
    /\ ret.args[1] = 0
    /\ NCells(Self) >= 2
    /\ Result = NewMatrix(Self.rows, Self.cols)

-----------------------------------------------------------------------------
(* C8: A.add(B) equals B.add(A) -- same rows, cols and stored cells --       *)
(* whatever the order in which either call iterates the union of the keys.  *)
C8_AddCommutes ==
    Ok("add")
        => \A order \in Orders(union_keys(Other, Self)) :
               add(Other, Self, order) = Returned(Result)

C8_Witness ==
    /\ Ok("add")
    /\ ret.self # ret.other
    /\ Self.matrix # Other.matrix
    /\ NCells(Self) >= 2 /\ NCells(Other) >= 2
    /\ \E k \in Keys : Stored(Self, k) /\ ~Stored(Other, k)
    /\ NCells(Result) >= 2

-----------------------------------------------------------------------------
(* C9: set_element(r, c, v) with v # 0 leaves (r, c) stored with value v,   *)
(* with v = 0 leaves nothing stored at (r, c); rows, cols, every other cell *)
(* and every other object stay as they were.  get_element returns the       *)
(* stored value, or 0, and changes nothing.                                 *)
C9_SetGet ==
    [][/\ ret'.op = "set_element" =>
            LET s == ret'.self
                k == <<ret'.args[1], ret'.args[2]>>
                v == ret'.args[3]
            IN  /\ v # 0 => Stored(mats'[s], k) /\ mats'[s].matrix[k] = v
                /\ v = 0 => ~Stored(mats'[s], k)
                /\ get_element(mats'[s], k[1], k[2]) = v
                /\ mats'[s].rows = mats[s].rows
                /\ mats'[s].cols = mats[s].cols
                /\ \A x \in ((DOMAIN mats[s].matrix) \cup (DOMAIN mats'[s].matrix)) \ {k} :
                       /\ Stored(mats[s], x) /\ Stored(mats'[s], x)
                       /\ mats'[s].matrix[x] = mats[s].matrix[x]
                /\ \A t \in Slots \ {s} : mats'[t] = mats[t]
       /\ ret'.op = "get_element" =>
            /\ ret'.err = "none"
            /\ ret'.value = <<At(mats[ret'.self], <<ret'.args[1], ret'.args[2]>>)>>
            /\ mats' = mats]_vars

\* a cell outside the declared dimensions was removed next to one that stays
C9_Witness ==
    /\ ret.op = "set_element"
    /\ ret.args[3] = 0
    /\ ret.args[1] >= Self.rows
    /\ NCells(Self) = MaxCells - 1
    /\ NCells(mats[3 - ret.self]) > 0

-----------------------------------------------------------------------------
(* C10: a load that fails on a malformed data line, after well-formed       *)
(* header lines and at least one well-formed triple, leaves the object it   *)
(* was called on with the rows, cols and cells it had before the call.      *)
C10_NoPartialLoad ==
    [][(/\ ret'.op = "load_from_file"
        /\ ret'.err = "ValueError"
        /\ file.exists
        /\ Len(stripped_lines(file.text)) >= 2
        /\ C6_HeaderLine(stripped_lines(file.text)[1], <<"r", "o", "w", "s">>)
        /\ C6_HeaderLine(stripped_lines(file.text)[2], <<"c", "o", "l", "s">>)
        /\ \E n \in 4 .. Len(stripped_lines(file.text)) :
               /\ ~C6_TripleLine(stripped_lines(file.text)[n])
               /\ \A i \in 3 .. (n - 1) : C6_TripleLine(stripped_lines(file.text)[i]))
           => mats' = mats]_vars

====
